---- MODULE Spec2Model ----
(***************************************************************************)
(* Model of simplified_access_manager.py: the Model class (entity catalog, *)
(* access matrix, permission check), the two JSON stores it writes, the   *)
(* FormGenerator that fills the HTML forms, and the window (login, tabs,   *)
(* matrix checkboxes, role dialogs).                                       *)
(*                                                                         *)
(* A Python str that is inspected (a name, a password, a value) is a tuple *)
(* of characters.                                                          *)
(*                                                                         *)
(* JSON values: an id stored as a JSON number n is [t |-> "int", v |-> n], *)
(* an id (or key) stored as the JSON string "n" is [t |-> "str", v |-> n]. *)
(* A Python dict that is iterated (the matrix) is a sequence of            *)
(* [key, ids] pairs in insertion order; the other dicts are functions.     *)
(***************************************************************************)
EXTENDS Integers, Sequences, FiniteSets, TLC

VARIABLES
    boot,              \* which pair of files Model.__init__ loaded
    data,              \* self.data, the catalog document as last assigned
    systems,           \* self.systems
    systems_by_id,     \* self.systems_by_id
    systems_by_cat,    \* self.systems_by_cat
    categories,        \* self.categories
    categories_by_id,  \* self.categories_by_id
    roles,             \* self.roles
    roles_by_id,       \* self.roles_by_id
    users,             \* self.users
    users_by_username, \* self.users_by_username
    matrix,            \* self.matrix
    cat_ids_issued,    \* history: how often each category id was given to a category (0, 1, 2 = more than once)
    disk_data,         \* content of data.json
    disk_matrix,       \* content of matrix.json
    session,           \* App: the user logged in, the tabs of the notebook and their read_only flags
    matrix_tab,        \* MatrixTab: self.vars and self._current_pos
    html,              \* the markup a form is being filled in
    written,           \* the write_text calls of the last form generation: path and content
    ret                \* the last call and what it returned

vars == <<boot, data, systems, systems_by_id, systems_by_cat, categories,
          categories_by_id, roles, roles_by_id, users, users_by_username,
          matrix, cat_ids_issued, disk_data, disk_matrix, session, matrix_tab,
          html, written, ret>>

catalogVars == <<systems, systems_by_id, systems_by_cat, categories, categories_by_id>>
accessVars  == <<roles, roles_by_id, users, users_by_username>>
uiVars      == <<session, matrix_tab>>

(***************************************************************************)
(* Bounds of the model.                                                    *)
(***************************************************************************)
MaxSysId == 2          \* add_system is explored while the new id is <= MaxSysId
MaxCatId == 2          \* add_category is explored while the new id is <= MaxCatId
MaxUserId == 2         \* add_user is explored while the new id is <= MaxUserId
MaxText == 2           \* length of the texts filled in a form field

Names     == {<<"A">>, <<"B">>}
Positions == {1, 2}                   \* ids of the positions of data.json
SysArgs   == 1 .. MaxSysId            \* system ids passed as arguments
CatArgs   == 0 .. MaxCatId            \* category ids passed as arguments
UserArgs  == 1 .. MaxUserId           \* user ids passed as arguments
RoleIds   == {"admin", "viewer"}      \* role ids passed to the role CRUD
RoleArgs  == RoleIds \cup {""}        \* role ids passed to the user CRUD
Usernames == {"", "ana", "bo"}        \* usernames passed to the user CRUD

\* an optional argument: None, or a value
None    == <<>>
Some(v) == <<v>>
Opt(S)  == {None} \cup {Some(v) : v \in S}
\* "x is not None", and the truth value of an optional string
IsSome(o) == o # None
Truthy(o) == o # None /\ o[1] # ""

(***************************************************************************)
(* Python / JSON helpers.                                                  *)
(***************************************************************************)
IntId(n) == [t |-> "int", v |-> n]
StrId(n) == [t |-> "str", v |-> n]

\* int(x) of a JSON number or of a numeric JSON string
ToInt(e) == e.v

\* str(x) of an int (or of a string, which is left as it is)
ToStr(e) == StrId(e.v)

Range(s) == {s[i] : i \in DOMAIN s}

\* max(ids, default=0)
MaxOf(S) == IF S = {} THEN 0 ELSE CHOOSE x \in S : \A y \in S : y <= x

\* sorted(set of ints), as a list of JSON numbers
SortedInts(S) ==
    IF S = {} THEN <<>>
    ELSE CHOOSE s \in [1 .. Cardinality(S) -> {IntId(n) : n \in S}] :
            \A i, j \in 1 .. Cardinality(S) : i < j => s[i].v < s[j].v

\* list.remove(x): the list without the first occurrence of x (x is in the list)
RemoveFirst(s, x) ==
    LET i == CHOOSE k \in DOMAIN s : s[k] = x /\ \A j \in 1 .. k - 1 : s[j] # x
    IN  SubSeq(s, 1, i - 1) \o SubSeq(s, i + 1, Len(s))

\* dict as a function: d[k] = v, del d[k]
DictPut(d, k, v) == [x \in DOMAIN d \cup {k} |-> IF x = k THEN v ELSE d[x]]
DictDel(d, k)    == [x \in DOMAIN d \ {k} |-> d[x]]

\* the matrix dict, in insertion order
MatrixKeys(m) == {m[i].key : i \in DOMAIN m}
MatrixGet(m, k) ==
    IF k \in MatrixKeys(m)
    THEN (m[CHOOSE i \in DOMAIN m : m[i].key = k]).ids
    ELSE <<>>
MatrixPut(m, k, v) ==
    IF k \in MatrixKeys(m)
    THEN [i \in DOMAIN m |-> IF m[i].key = k THEN [key |-> k, ids |-> v] ELSE m[i]]
    ELSE Append(m, [key |-> k, ids |-> v])
MatrixDel(m, k) == SelectSeq(m, LAMBDA e : e.key # k)
KeyList(m) == [i \in DOMAIN m |-> m[i].key]

(***************************************************************************)
(* Model.__init__: the files found at start.                               *)
(***************************************************************************)
\* a system record of the file that carries no "categoryId" key
NoneCat == -1

\* s.get("categoryId") and s.get("categoryId", 0)
GetCat(s)     == s.categoryId
GetCatOr0(s)  == IF s.categoryId = NoneCat THEN 0 ELSE s.categoryId

Sys(i, n, c) == [id |-> i, name |-> n, categoryId |-> c]
Cat(i, n)    == [id |-> i, name |-> n]
Role(i, n, d, p) == [id |-> i, name |-> n, description |-> d, permissions |-> p]
User(i, un, pw, n, r, a) ==
    [id |-> i, username |-> un, password |-> pw, name |-> n, role |-> r, active |-> a]

Resources == {"access_matrix", "staff_management", "form_generation",
              "user_management", "role_management", "system_settings"}
Actions   == {"view", "edit", "delete"}

\* permission grids (resource -> action -> bool) of the file and of the calls
ViewerGrid == [access_matrix |-> [view |-> TRUE, edit |-> FALSE]]
Grids == {<<>>, ViewerGrid}

EmptyData ==
    [systems |-> <<>>, categories |-> <<>>, roles |-> <<>>, users |-> <<>>,
     settings |-> [generate_checked_only |-> FALSE]]

SeedData ==
    [systems |-> <<Sys(1, <<"A">>, 1), Sys(2, <<"B">>, NoneCat)>>,
     categories |-> <<Cat(1, <<"A">>)>>,
     roles |-> <<Role("admin", "R", "d", ViewerGrid)>>,
     \* a record of the file that still stores its password unhashed
     users |-> <<User(1, "ana", <<"pw">>, "N", "admin", TRUE)>>,
     settings |-> [generate_checked_only |-> FALSE]]

LoadedData(b) == IF b = "none" THEN EmptyData ELSE SeedData

LoadedMatrix(b) ==
    CASE b = "none" -> <<>>
      [] b = "ints" -> <<[key |-> StrId(1), ids |-> <<IntId(1), IntId(2)>>]>>
      [] b = "strs" -> <<[key |-> StrId(1), ids |-> <<StrId(1), StrId(2)>>],
                         [key |-> StrId(2), ids |-> <<StrId(1)>>]>>

\* {x["id"]: x for x in list}: the last item of an id wins
IndexById(list) ==
    [k \in {list[i].id : i \in DOMAIN list} |->
        list[CHOOSE i \in DOMAIN list :
                /\ list[i].id = k
                /\ \A j \in DOMAIN list : list[j].id = k => j <= i]]

\* {u["username"]: u for u in users}
IndexByUsername(list) ==
    [k \in {list[i].username : i \in DOMAIN list} |->
        list[CHOOSE i \in DOMAIN list :
                /\ list[i].username = k
                /\ \A j \in DOMAIN list : list[j].username = k => j <= i]]

\* for s in systems: systems_by_cat.setdefault(s.get("categoryId", 0), []).append(s)
GroupByCat(list) ==
    [c \in {GetCatOr0(list[i]) : i \in DOMAIN list} |->
        SelectSeq(list, LAMBDA s : GetCatOr0(s) = c)]

\* App before the login: the login window, no notebook
NoSession   == [user_id |-> 0, tabs |-> {}, editable |-> {}]
NoMatrixTab == [vars |-> <<>>, current_pos |-> 0]

NoRet == [op |-> "init", res |-> "none", id |-> 0, key |-> ""]

Init ==
    /\ boot \in {"none", "ints", "strs"}
    /\ data = LoadedData(boot)
    /\ matrix = LoadedMatrix(boot)
    /\ systems = data.systems
    /\ systems_by_id = IndexById(systems)
    /\ categories = data.categories
    /\ categories_by_id = IndexById(categories)
    /\ roles = data.roles
    /\ roles_by_id = IndexById(roles)
    /\ users = data.users
    /\ users_by_username = IndexByUsername(users)
    /\ systems_by_cat = GroupByCat(systems)
    /\ cat_ids_issued = [i \in 1 .. MaxCatId |-> IF i \in DOMAIN categories_by_id THEN 1 ELSE 0]
    /\ disk_data = data
    /\ disk_matrix = matrix
    /\ session = NoSession
    /\ matrix_tab = NoMatrixTab
    /\ html = <<>>
    /\ written = [dirs |-> {}, files |-> <<>>]
    /\ ret = NoRet

\* a call on an integer id, and a call on a string key (a role id)
Ret(op, res, id)   == [op |-> op, res |-> res, id |-> id, key |-> ""]
RetK(op, res, key) == [op |-> op, res |-> res, id |-> 0, key |-> key]

(***************************************************************************)
(* Settings.                                                               *)
(***************************************************************************)
SetGenerateCheckedOnly(enabled) ==
    /\ data' = [data EXCEPT !.settings.generate_checked_only = enabled]
    /\ disk_data' = data'
    /\ ret' = Ret("set_generate_checked_only", "ok", 0)
    /\ UNCHANGED <<boot, uiVars, html, written, cat_ids_issued, catalogVars, accessVars, matrix, disk_matrix>>

(***************************************************************************)
(* Access matrix.                                                          *)
(***************************************************************************)
PosKey(pos_id) == StrId(pos_id)

\* set(int(id) for id in self.matrix.get(str(pos_id), []))
SystemsForPosition(m, pos_id) == {ToInt(e) : e \in Range(MatrixGet(m, PosKey(pos_id)))}

\* faulty variant: the id is appended to, or filtered from, the stored list as it is
ToggledList_Append(m, pos_id, sys_id, enabled) ==
    LET ids == MatrixGet(m, PosKey(pos_id))
    IN  IF enabled THEN Append(ids, IntId(sys_id))
        ELSE SelectSeq(ids, LAMBDA e : e # IntId(sys_id))

\* the list set_system_for_position stores under the position's key
ToggledList(m, pos_id, sys_id, enabled) ==
    LET current == SystemsForPosition(m, pos_id)
    IN  SortedInts(IF enabled THEN current \cup {sys_id} ELSE current \ {sys_id})

SetSystemMatrix(m, pos_id, sys_id, enabled) ==
    MatrixPut(m, PosKey(pos_id), ToggledList(m, pos_id, sys_id, enabled))

SetSystemForPosition(pos_id, sys_id, enabled) ==
    /\ matrix' = SetSystemMatrix(matrix, pos_id, sys_id, enabled)
    /\ disk_matrix' = matrix'
    /\ ret' = Ret("set_system_for_position", "ok", sys_id)
    /\ UNCHANGED <<boot, uiVars, html, written, cat_ids_issued, data, catalogVars, accessVars, disk_data>>

(***************************************************************************)
(* Category CRUD.                                                          *)
(***************************************************************************)
\* faulty variant: len(list) + 1
NextId_Count(list) == Len(list) + 1

\* max([x["id"] for x in list], default=0) + 1
NextId(list) == MaxOf({list[i].id : i \in DOMAIN list}) + 1

AddCategory(name) ==
    LET new_id == NextId(categories)
        new_category == Cat(new_id, name)
    IN  /\ new_id <= MaxCatId
        /\ categories' = Append(categories, new_category)
        /\ categories_by_id' = DictPut(categories_by_id, new_id, new_category)
        /\ data' = [data EXCEPT !.categories = categories']
        /\ disk_data' = data'
        /\ ret' = Ret("add_category", "ok", new_id)
        /\ cat_ids_issued' = [cat_ids_issued EXCEPT ![new_id] = IF @ = 0 THEN 1 ELSE 2]
        /\ UNCHANGED <<boot, uiVars, html, written, systems, systems_by_id, systems_by_cat, accessVars,
                       matrix, disk_matrix>>

\* the records of a list that are the object with this id, renamed
Renamed(list, id, name) ==
    [i \in DOMAIN list |-> IF list[i].id = id THEN [list[i] EXCEPT !.name = name] ELSE list[i]]

UpdateCategory(cat_id, name) ==
    IF cat_id \in DOMAIN categories_by_id
    THEN /\ categories_by_id' = [categories_by_id EXCEPT ![cat_id].name = name]
         /\ categories' = Renamed(categories, cat_id, name)
         /\ data' = [data EXCEPT !.categories = categories']
         /\ disk_data' = data'
         /\ ret' = Ret("update_category", "ok", cat_id)
         /\ UNCHANGED <<boot, uiVars, html, written, cat_ids_issued, systems, systems_by_id, systems_by_cat, accessVars,
                        matrix, disk_matrix>>
    ELSE /\ ret' = Ret("update_category", "fail", cat_id)
         /\ UNCHANGED <<boot, uiVars, html, written, cat_ids_issued, data, catalogVars, accessVars, matrix, disk_data, disk_matrix>>

\* faulty variant: the systems are filtered on their own id
SystemsInCategory_ById(cat_id) == SelectSeq(systems, LAMBDA s : s.id = cat_id)

\* [s for s in self.systems if s.get("categoryId") == cat_id]
SystemsInCategory(cat_id) == SelectSeq(systems, LAMBDA s : GetCat(s) = cat_id)

DeleteCategory(cat_id) ==
    IF cat_id \in DOMAIN categories_by_id /\ SystemsInCategory(cat_id) = <<>>
    THEN /\ categories_by_id' = DictDel(categories_by_id, cat_id)
         /\ categories' = SelectSeq(categories, LAMBDA c : c.id # cat_id)
         /\ data' = [data EXCEPT !.categories = categories']
         /\ disk_data' = data'
         /\ ret' = Ret("delete_category", "ok", cat_id)
         /\ UNCHANGED <<boot, uiVars, html, written, cat_ids_issued, systems, systems_by_id, systems_by_cat, accessVars,
                        matrix, disk_matrix>>
    ELSE /\ ret' = Ret("delete_category",
                       IF cat_id \in DOMAIN categories_by_id THEN "in_use" ELSE "not_found",
                       cat_id)
         /\ UNCHANGED <<boot, uiVars, html, written, cat_ids_issued, data, catalogVars, accessVars, matrix, disk_data, disk_matrix>>

(***************************************************************************)
(* System CRUD.                                                            *)
(***************************************************************************)
\* systems_by_cat.setdefault(cat, []).append(s)
GroupAppend(g, cat, s) ==
    DictPut(g, cat, IF cat \in DOMAIN g THEN Append(g[cat], s) ELSE <<s>>)

\* g[cat] = [s for s in g[cat] if s["id"] != sys_id]; del g[cat] once it is empty
\* (nothing when cat is no key of g)
GroupRemove(g, cat, sys_id) ==
    IF cat \in DOMAIN g
    THEN LET rest == SelectSeq(g[cat], LAMBDA s : s.id # sys_id)
         IN  IF rest = <<>> THEN DictDel(g, cat) ELSE DictPut(g, cat, rest)
    ELSE g

AddSystem(name, category_id) ==
    LET new_id == NextId(systems)
        new_system == Sys(new_id, name, category_id)
    IN  /\ new_id <= MaxSysId
        /\ systems' = Append(systems, new_system)
        /\ systems_by_id' = DictPut(systems_by_id, new_id, new_system)
        /\ systems_by_cat' = GroupAppend(systems_by_cat, category_id, new_system)
        /\ data' = [data EXCEPT !.systems = systems']
        /\ disk_data' = data'
        /\ ret' = Ret("add_system", "ok", new_id)
        /\ UNCHANGED <<boot, uiVars, html, written, cat_ids_issued, categories, categories_by_id, accessVars, matrix, disk_matrix>>

\* the dict of system sys_id is one object, shared by the list and both indexes:
\* an assignment to its fields shows in each of them
Reassigned(list, sys_id, new) ==
    [i \in DOMAIN list |-> IF list[i].id = sys_id THEN new ELSE list[i]]

UpdateSystem(sys_id, name, category_id) ==
    IF sys_id \in DOMAIN systems_by_id
    THEN LET old_category_id == GetCat(systems_by_id[sys_id])
             new == Sys(sys_id, name, category_id)
             shared == [c \in DOMAIN systems_by_cat |->
                            Reassigned(systems_by_cat[c], sys_id, new)]
         IN  /\ systems_by_id' = DictPut(systems_by_id, sys_id, new)
             /\ systems' = Reassigned(systems, sys_id, new)
             /\ systems_by_cat' =
                    IF old_category_id # category_id
                    THEN GroupAppend(GroupRemove(shared, old_category_id, sys_id),
                                     category_id, new)
                    ELSE shared
             /\ data' = [data EXCEPT !.systems = systems']
             /\ disk_data' = data'
             /\ ret' = Ret("update_system", "ok", sys_id)
             /\ UNCHANGED <<boot, uiVars, html, written, cat_ids_issued, categories, categories_by_id, accessVars,
                            matrix, disk_matrix>>
    ELSE /\ ret' = Ret("update_system", "fail", sys_id)
         /\ UNCHANGED <<boot, uiVars, html, written, cat_ids_issued, data, catalogVars, accessVars, matrix, disk_data, disk_matrix>>

\* The cascade loop of delete_system over list(self.matrix.keys()):
\*   pos_systems = [int(id) for id in self.matrix[pos_key]]
\*   if int(sys_id) in pos_systems:
\*       self.matrix[pos_key].remove(str(sys_id))   # ValueError when "sys_id" is no element
\*       if not self.matrix[pos_key]: del self.matrix[pos_key]
\* The result is the matrix reached and whether list.remove raised.
RECURSIVE Cascade(_, _, _)
Cascade(m, keys, sys_id) ==
    IF keys = <<>> THEN [m |-> m, raised |-> FALSE]
    ELSE LET pos_key == Head(keys)
             ids == MatrixGet(m, pos_key)
         IN  IF sys_id \in {ToInt(e) : e \in Range(ids)}
             THEN IF ToStr(IntId(sys_id)) \in Range(ids)
                  THEN LET rest == RemoveFirst(ids, ToStr(IntId(sys_id)))
                       IN  Cascade(IF rest = <<>> THEN MatrixDel(m, pos_key)
                                   ELSE MatrixPut(m, pos_key, rest),
                                   Tail(keys), sys_id)
                  ELSE [m |-> m, raised |-> TRUE]
             ELSE Cascade(m, Tail(keys), sys_id)

DeleteSystem(sys_id) ==
    IF sys_id \in DOMAIN systems_by_id
    THEN LET category_id == GetCat(systems_by_id[sys_id])
             swept == Cascade(matrix, KeyList(matrix), sys_id)
         IN  /\ systems_by_id' = DictDel(systems_by_id, sys_id)
             /\ systems' = SelectSeq(systems, LAMBDA s : s.id # sys_id)
             /\ systems_by_cat' = GroupRemove(systems_by_cat, category_id, sys_id)
             /\ matrix' = swept.m
             /\ IF swept.raised
                THEN \* ValueError leaves delete_system before either save
                     /\ ret' = Ret("delete_system", "raised", sys_id)
                     /\ UNCHANGED <<data, disk_data, disk_matrix>>
                ELSE /\ data' = [data EXCEPT !.systems = systems']
                     /\ disk_data' = data'
                     /\ disk_matrix' = matrix'
                     /\ ret' = Ret("delete_system", "ok", sys_id)
             /\ UNCHANGED <<boot, uiVars, html, written, cat_ids_issued, categories, categories_by_id, accessVars>>
    ELSE /\ ret' = Ret("delete_system", "not_found", sys_id)
         /\ UNCHANGED <<boot, uiVars, html, written, cat_ids_issued, data, catalogVars, accessVars, matrix, disk_data, disk_matrix>>

(***************************************************************************)
(* Role management.                                                        *)
(***************************************************************************)
\* faulty variant: an existing role id is overwritten before the call fails
AddRole_Overwrite(role_id, name, description, permissions) ==
    LET new_role == Role(role_id, name, description, permissions)
    IN  /\ roles_by_id' = DictPut(roles_by_id, role_id, new_role)
        /\ roles' = IF role_id \in DOMAIN roles_by_id
                    THEN [k \in DOMAIN roles |-> IF roles[k].id = role_id THEN new_role ELSE roles[k]]
                    ELSE Append(roles, new_role)
        /\ data' = [data EXCEPT !.roles = roles']
        /\ disk_data' = data'
        /\ ret' = RetK("add_role", IF role_id \in DOMAIN roles_by_id THEN "exists" ELSE "ok", role_id)
        /\ UNCHANGED <<boot, uiVars, html, written, cat_ids_issued, catalogVars, users, users_by_username,
                       matrix, disk_matrix>>

AddRole(role_id, name, description, permissions) ==
    IF role_id \in DOMAIN roles_by_id
    THEN /\ ret' = RetK("add_role", "exists", role_id)
         /\ UNCHANGED <<boot, uiVars, html, written, cat_ids_issued, data, catalogVars, accessVars, matrix,
                        disk_data, disk_matrix>>
    ELSE LET new_role == Role(role_id, name, description, permissions)
         IN  /\ roles' = Append(roles, new_role)
             /\ roles_by_id' = DictPut(roles_by_id, role_id, new_role)
             /\ data' = [data EXCEPT !.roles = roles']
             /\ disk_data' = data'
             /\ ret' = RetK("add_role", "ok", role_id)
             /\ UNCHANGED <<boot, uiVars, html, written, cat_ids_issued, catalogVars, users, users_by_username,
                            matrix, disk_matrix>>

\* the fields of a role that update_role assigns (an omitted field is left)
MergedRole(role, name, description, permissions) ==
    [role EXCEPT !.name = IF IsSome(name) THEN name[1] ELSE @,
                 !.description = IF IsSome(description) THEN description[1] ELSE @,
                 !.permissions = IF IsSome(permissions) THEN permissions[1] ELSE @]

UpdateRole(role_id, name, description, permissions) ==
    IF role_id \notin DOMAIN roles_by_id
    THEN /\ ret' = RetK("update_role", "not_found", role_id)
         /\ UNCHANGED <<boot, uiVars, html, written, cat_ids_issued, data, catalogVars, accessVars, matrix,
                        disk_data, disk_matrix>>
    ELSE LET new == MergedRole(roles_by_id[role_id], name, description, permissions)
         IN  /\ roles_by_id' = DictPut(roles_by_id, role_id, new)
             /\ roles' = [k \in DOMAIN roles |->
                            IF roles[k].id = role_id THEN new ELSE roles[k]]
             /\ data' = [data EXCEPT !.roles = roles']
             /\ disk_data' = data'
             /\ ret' = RetK("update_role", "ok", role_id)
             /\ UNCHANGED <<boot, uiVars, html, written, cat_ids_issued, catalogVars, users, users_by_username,
                            matrix, disk_matrix>>

\* faulty variant: any user at all blocks the deletion of a role
UsersWithRole_Any(role_id) == users

\* [u for u in self.users if u.get("role") == role_id]
UsersWithRole(role_id) == SelectSeq(users, LAMBDA u : u.role = role_id)

\* what delete_role answers
DeleteRoleResult(role_id) ==
    IF role_id \notin DOMAIN roles_by_id THEN "not_found"
    ELSE IF UsersWithRole(role_id) # <<>> THEN "in_use"
    ELSE "ok"

DeleteRole(role_id) ==
    IF DeleteRoleResult(role_id) = "ok"
    THEN /\ roles_by_id' = DictDel(roles_by_id, role_id)
         /\ roles' = SelectSeq(roles, LAMBDA r : r.id # role_id)
         /\ data' = [data EXCEPT !.roles = roles']
         /\ disk_data' = data'
         /\ ret' = RetK("delete_role", "ok", role_id)
         /\ UNCHANGED <<boot, uiVars, html, written, cat_ids_issued, catalogVars, users, users_by_username,
                        matrix, disk_matrix>>
    ELSE /\ ret' = RetK("delete_role", DeleteRoleResult(role_id), role_id)
         /\ UNCHANGED <<boot, uiVars, html, written, cat_ids_issued, data, catalogVars, accessVars, matrix,
                        disk_data, disk_matrix>>

(***************************************************************************)
(* User management.                                                        *)
(***************************************************************************)
\* hashlib.sha256(s).hexdigest(): a string that differs from s and from the
\* digest of every other string.  A password string is a tuple; its digest is
\* the tuple with the digest mark in front.
Sha256(s) == <<"sha256">> \o s

\* authenticate_user(username, password) on the username index: the user
\* record, or None
AuthenticateUser(by_username, username, password) ==
    IF username \notin DOMAIN by_username THEN None
    ELSE LET user == by_username[username]
         IN  IF user.active /\ (user.password = Sha256(password) \/ user.password = password)
             THEN Some(user)
             ELSE None

AddUser(username, password, name, role, active) ==
    IF username \in DOMAIN users_by_username
    THEN /\ ret' = RetK("add_user", "username_exists", username)
         /\ UNCHANGED <<boot, uiVars, html, written, cat_ids_issued, data, catalogVars, accessVars, matrix,
                        disk_data, disk_matrix>>
    ELSE IF role \notin DOMAIN roles_by_id
    THEN /\ ret' = RetK("add_user", "invalid_role", username)
         /\ UNCHANGED <<boot, uiVars, html, written, cat_ids_issued, data, catalogVars, accessVars, matrix,
                        disk_data, disk_matrix>>
    ELSE LET new_user == User(NextId(users), username, Sha256(password), name, role, active)
         IN  /\ new_user.id <= MaxUserId
             /\ users' = Append(users, new_user)
             /\ users_by_username' = DictPut(users_by_username, username, new_user)
             /\ data' = [data EXCEPT !.users = users']
             /\ disk_data' = data'
             /\ ret' = Ret("add_user", "ok", new_user.id)
             /\ UNCHANGED <<boot, uiVars, html, written, cat_ids_issued, catalogVars, roles, roles_by_id,
                            matrix, disk_matrix>>

\* for u in self.users: if u["id"] == user_id: user = u; break
FindUser(user_id) ==
    IF \E k \in DOMAIN users : users[k].id = user_id
    THEN Some(users[CHOOSE k \in DOMAIN users :
                        /\ users[k].id = user_id
                        /\ \A j \in 1 .. k - 1 : users[j].id # user_id])
    ELSE None

\* faulty variant: the supplied password is stored as it is
MergedUser_Plain(user, username, password, name, role, active) ==
    [user EXCEPT !.username = IF IsSome(username) THEN username[1] ELSE @,
                 !.password = IF IsSome(password) THEN password[1] ELSE @,
                 !.name = IF IsSome(name) THEN name[1] ELSE @,
                 !.role = IF IsSome(role) THEN role[1] ELSE @,
                 !.active = IF IsSome(active) THEN active[1] ELSE @]

\* the fields of a user that update_user assigns (an omitted field is left)
MergedUser(user, username, password, name, role, active) ==
    [user EXCEPT !.username = IF IsSome(username) THEN username[1] ELSE @,
                 !.password = IF IsSome(password) THEN Sha256(password[1]) ELSE @,
                 !.name = IF IsSome(name) THEN name[1] ELSE @,
                 !.role = IF IsSome(role) THEN role[1] ELSE @,
                 !.active = IF IsSome(active) THEN active[1] ELSE @]

\* what update_user answers before it assigns anything
UpdateUserCheck(user_id, username, role) ==
    IF FindUser(user_id) = None THEN "not_found"
    ELSE IF /\ Truthy(username)
            /\ username[1] # FindUser(user_id)[1].username
            /\ username[1] \in DOMAIN users_by_username
    THEN "username_exists"
    ELSE IF Truthy(role) /\ role[1] \notin DOMAIN roles_by_id THEN "invalid_role"
    ELSE IF IsSome(username) /\ FindUser(user_id)[1].username \notin DOMAIN users_by_username
    THEN "raised"      \* del self.users_by_username[old_username]: KeyError
    ELSE "ok"

\* the user dict is one object, shared by the list and the username index
UpdateUser(user_id, username, password, name, role, active) ==
    IF UpdateUserCheck(user_id, username, role) # "ok"
    THEN /\ ret' = Ret("update_user", UpdateUserCheck(user_id, username, role), user_id)
         /\ UNCHANGED <<boot, uiVars, html, written, cat_ids_issued, data, catalogVars, accessVars, matrix,
                        disk_data, disk_matrix>>
    ELSE LET user == FindUser(user_id)[1]
             new == MergedUser(user, username, password, name, role, active)
             moved == IF IsSome(username)
                      THEN DictPut(DictDel(users_by_username, user.username),
                                   username[1], new)
                      ELSE users_by_username
         IN  /\ users' = [k \in DOMAIN users |->
                            IF users[k].id = user_id THEN new ELSE users[k]]
             /\ users_by_username' =
                    [n \in DOMAIN moved |-> IF moved[n].id = user_id THEN new ELSE moved[n]]
             /\ data' = [data EXCEPT !.users = users']
             /\ disk_data' = data'
             /\ ret' = Ret("update_user", "ok", user_id)
             /\ UNCHANGED <<boot, uiVars, html, written, cat_ids_issued, catalogVars, roles, roles_by_id,
                            matrix, disk_matrix>>

DeleteUser(user_id) ==
    IF FindUser(user_id) = None
    THEN /\ ret' = Ret("delete_user", "not_found", user_id)
         /\ UNCHANGED <<boot, uiVars, html, written, cat_ids_issued, data, catalogVars, accessVars, matrix,
                        disk_data, disk_matrix>>
    ELSE IF FindUser(user_id)[1].username \notin DOMAIN users_by_username
    THEN \* del self.users_by_username[user["username"]]: KeyError
         /\ ret' = Ret("delete_user", "raised", user_id)
         /\ UNCHANGED <<boot, uiVars, html, written, cat_ids_issued, data, catalogVars, accessVars, matrix,
                        disk_data, disk_matrix>>
    ELSE /\ users_by_username' = DictDel(users_by_username, FindUser(user_id)[1].username)
         /\ users' = SelectSeq(users, LAMBDA u : u.id # user_id)
         /\ data' = [data EXCEPT !.users = users']
         /\ disk_data' = data'
         /\ ret' = Ret("delete_user", "ok", user_id)
         /\ UNCHANGED <<boot, uiVars, html, written, cat_ids_issued, catalogVars, roles, roles_by_id,
                        matrix, disk_matrix>>

(***************************************************************************)
(* Permission check.                                                       *)
(***************************************************************************)
\* faulty variant: a resource or action missing from the grid is allowed
CheckPermission_DefaultAllow(user, resource, action) ==
    IF user = None THEN FALSE
    ELSE IF user[1].role \notin DOMAIN roles_by_id THEN FALSE
    ELSE LET permissions == roles_by_id[user[1].role].permissions
         IN  IF resource \notin DOMAIN permissions THEN TRUE
             ELSE IF action \notin DOMAIN permissions[resource] THEN TRUE
             ELSE permissions[resource][action]

\* check_permission(user, resource, action); user is None or a user dict
CheckPermission(user, resource, action) ==
    IF user = None THEN FALSE
    ELSE LET role_id == user[1].role
         IN  IF role_id \notin DOMAIN roles_by_id THEN FALSE
             ELSE LET permissions == roles_by_id[role_id].permissions
                      resource_permissions ==
                          IF resource \in DOMAIN permissions THEN permissions[resource]
                          ELSE <<>>
                  IN  IF action \in DOMAIN resource_permissions
                      THEN resource_permissions[action]
                      ELSE FALSE

(***************************************************************************)
(* FormGenerator: markup.  A document is a sequence of elements; an        *)
(* <input> carries its attributes in their order, each with the characters *)
(* between its double quotes.  A character entity (&amp; ...) is one       *)
(* character of the tuple.                                                 *)
(***************************************************************************)
Attr(name, val) == [name |-> name, val |-> val]
Input(attrs) == [tag |-> "input", attrs |-> attrs, checked |-> FALSE, text |-> <<>>]
Element(tag, checked, text) == [tag |-> tag, attrs |-> <<>>, checked |-> checked, text |-> text]

\* the characters of the texts filled in, and the texts
Chars == {"x", "n", "\\", "<"}
Texts == UNION {[1 .. n -> Chars] : n \in 0 .. MaxText}

\* text.replace(old, new)
Replace(text, old, new) == [i \in DOMAIN text |-> IF text[i] = old THEN new ELSE text[i]]

\* _escape_html(text)
EscapeHtml(text) ==
    Replace(Replace(Replace(Replace(text, "&", "&amp;"), "<", "&lt;"), ">", "&gt;"),
            "\"", "&quot;")

\* re.sub(pattern, repl, ...) with a string repl reads repl as a template: a
\* backslash with an ASCII letter is an escape (\n is a newline; a letter that
\* is no escape raises re.error), two backslashes are one, a backslash before
\* anything else stays.
AsciiLetters == {"x", "n", "A", "B", "a", "b"}
RECURSIVE BadEscape(_)
BadEscape(s) ==
    IF Len(s) < 2 THEN FALSE
    ELSE IF s[1] = "\\"
         THEN \/ s[2] \in AsciiLetters \ {"n"}
              \/ BadEscape(SubSeq(s, 3, Len(s)))
         ELSE BadEscape(Tail(s))

RECURSIVE ExpandTemplate(_)
ExpandTemplate(s) ==
    IF s = <<>> THEN <<>>
    ELSE IF s[1] = "\\" /\ Len(s) >= 2
         THEN (CASE s[2] = "n"  -> <<"\n">>
                 [] s[2] = "\\" -> <<"\\">>
                 [] OTHER       -> <<s[1], s[2]>>) \o ExpandTemplate(SubSeq(s, 3, Len(s)))
         ELSE <<s[1]>> \o ExpandTemplate(Tail(s))

\* "value=" in attrs: so for any attribute whose name ends in value
HasValueText(attrs) == \E i \in DOMAIN attrs : attrs[i].name \in {"value", "data-value"}

\* repl(match) of _set_input_value on the attributes of the matched <input>:
\* re.sub(r'value="[^"]*"', f'value="{escaped}"', attrs) when "value=" occurs
\* in them, attrs + f' value="{escaped}"' otherwise
SetAttrs(attrs, escaped) ==
    IF HasValueText(attrs)
    THEN IF BadEscape(escaped)
         THEN [attrs |-> attrs, raised |-> TRUE]
         ELSE [attrs |-> [i \in DOMAIN attrs |->
                            IF attrs[i].name \in {"value", "data-value"}
                            THEN Attr(attrs[i].name, ExpandTemplate(escaped))
                            ELSE attrs[i]],
               raised |-> FALSE]
    ELSE [attrs |-> Append(attrs, Attr("value", escaped)), raised |-> FALSE]

\* the <input> elements of the markup that carry id="input_id"
Addressed(markup, input_id) ==
    {k \in DOMAIN markup :
        /\ markup[k].tag = "input"
        /\ \E i \in DOMAIN markup[k].attrs :
                markup[k].attrs[i].name = "id" /\ markup[k].attrs[i].val = <<input_id>>}

\* _set_input_value(html, input_id, value): the markup, and whether re.error
\* was raised (count=1: the first match only)
SetInputValue(markup, input_id, value) ==
    IF Addressed(markup, input_id) = {}
    THEN [html |-> markup, raised |-> FALSE]
    ELSE LET k == CHOOSE x \in Addressed(markup, input_id) :
                        \A y \in Addressed(markup, input_id) : x <= y
             r == SetAttrs(markup[k].attrs, EscapeHtml(value))
         IN  [html |-> [markup EXCEPT ![k].attrs = r.attrs], raised |-> r.raised]

\* templates with the input fields of a form: no value yet, an empty value,
\* a data-value attribute
FieldIds == {"nombre", "email"}
BareInput(input_id) == Input(<<Attr("id", <<input_id>>)>>)
FieldTemplates ==
    {<<BareInput("nombre")>>,
     <<Input(<<Attr("id", <<"nombre">>), Attr("value", <<>>)>>), BareInput("email")>>,
     <<Input(<<Attr("id", <<"nombre">>), Attr("data-value", <<"x">>)>>)>>}

\* html = read_text(template)
ReadText(template) ==
    /\ html' = template
    /\ ret' = RetK("read_text", "ok", "")
    /\ UNCHANGED <<boot, uiVars, cat_ids_issued, data, catalogVars, accessVars, matrix,
                   disk_data, disk_matrix, written>>

\* html = _set_input_value(html, input_id, value)
FillField(input_id, value) ==
    LET r == SetInputValue(html, input_id, value)
    IN  /\ html' = IF r.raised THEN html ELSE r.html
        /\ ret' = RetK("set_input_value", IF r.raised THEN "raised" ELSE "ok", input_id)
        /\ UNCHANGED <<boot, uiVars, cat_ids_issued, data, catalogVars, accessVars, matrix,
                       disk_data, disk_matrix, written>>

(***************************************************************************)
(* FormGenerator: the documents.                                           *)
(***************************************************************************)
\* the three template files: addressed inputs, the date label, and the marker
\* of the dynamic part
Marker(name) == Element("marker", FALSE, <<name>>)

RECURSIVE Inputs(_)
Inputs(ids) == IF ids = <<>> THEN <<>> ELSE <<BareInput(Head(ids))>> \o Inputs(Tail(ids))

TemplSolicitud ==
    Inputs(<<"nombre", "posicion", "departamento">>)
        \o <<Element("label", FALSE, <<"Fecha Ingreso">>)>>
        \o Inputs(<<"fecha_ingreso", "idm_login", "email">>)
        \o <<Marker("DYNAMIC_SYSTEM_SECTIONS_PLACEHOLDER")>>

TemplChecklist ==
    Inputs(<<"nombre", "posicion", "departamento">>)
        \o <<Element("label", FALSE, <<"Fecha Ingreso">>)>>
        \o Inputs(<<"fecha_ingreso">>)
        \o <<Marker("DYNAMIC_SYSTEM_ROWS_PLACEHOLDER")>>

TemplDeparture ==
    Inputs(<<"departure_employee", "departure_position", "departure_department",
             "departure_onq", "departure_term_date", "departure_remove_access",
             "departure_process_date", "departure_today">>)
        \o <<Marker("Content for this section would be dynamically populated or added here")>>

\* datetime.now().strftime("%d-%b-%y")
Today == <<"today">>

\* names of the position and of the department, from the departments of data.json
PosName(pos_id) ==
    IF boot = "none" THEN <<>> ELSE IF pos_id = 1 THEN <<"P", "<">> ELSE <<"Q">>
DeptName(dept_id) ==
    IF boot = "none" THEN <<>> ELSE <<"D", ">">>

\* a run of _set_input_value calls, fills = <<<<input id, value>>, ...>>
RECURSIVE FillAll(_, _)
FillAll(markup, fills) ==
    IF fills = <<>> THEN [html |-> markup, raised |-> FALSE]
    ELSE LET r == SetInputValue(markup, Head(fills)[1], Head(fills)[2])
         IN  IF r.raised THEN r ELSE FillAll(r.html, Tail(fills))

\* html.replace("Fecha Ingreso", date_label, 1)
Relabel(markup, date_label) ==
    LET hits == {k \in DOMAIN markup : markup[k].tag = "label"}
    IN  IF hits = {} THEN markup
        ELSE [markup EXCEPT ![CHOOSE x \in hits : \A y \in hits : x <= y].text = date_label]

\* _fill_basic_fields(html, employee_name, position_name, dept_name,
\*                    date_value=, date_label=, onq_user=, email=)
FillBasicFields(markup, employee_name, position_name, dept_name, date_value, date_label, onq_user, email) ==
    LET names == FillAll(markup, <<<<"nombre", employee_name>>,
                                   <<"posicion", position_name>>,
                                   <<"departamento", dept_name>>>>)
        labelled == IF Truthy(date_label) THEN Relabel(names.html, date_label[1])
                    ELSE names.html
        date == IF Truthy(date_value) THEN date_value[1] ELSE Today
    IN  IF names.raised THEN names
        ELSE FillAll(labelled,
                     <<<<"fecha_ingreso", date>>>>
                        \o (IF Truthy(onq_user) THEN <<<<"idm_login", onq_user[1]>>>> ELSE <<>>)
                        \o (IF Truthy(email) THEN <<<<"email", email[1]>>>> ELSE <<>>))

\* sorted(keys) of integer keys
SortedKeys(S) ==
    IF S = {} THEN <<>>
    ELSE CHOOSE s \in [1 .. Cardinality(S) -> S] :
            \A i, j \in 1 .. Cardinality(S) : i < j => s[i] < s[j]

\* the rows of one category: a checkbox, checked when the id is in checked_ids,
\* and the escaped name
Rows(tag, list, checked_ids) ==
    [k \in DOMAIN list |-> Element(tag, list[k].id \in checked_ids, EscapeHtml(list[k].name))]

\* _render_system_sections(systems_by_cat, checked_ids, categories_by_id): per
\* category in ascending id, the heading and the rows
RECURSIVE RenderSections(_, _, _, _)
RenderSections(cat_ids, by_cat, checked_ids, cats_by_id) ==
    IF cat_ids = <<>> THEN <<>>
    ELSE LET cat_id == Head(cat_ids)
             cat_name == IF cat_id \in DOMAIN cats_by_id
                         THEN cats_by_id[cat_id].name
                         ELSE <<"Categoria ", ToString(cat_id)>>
         IN  <<Element("h4", FALSE, cat_name)>>
                \o Rows("row", by_cat[cat_id], checked_ids)
                \o RenderSections(Tail(cat_ids), by_cat, checked_ids, cats_by_id)

RenderSystemSections(by_cat, checked_ids, cats_by_id) ==
    RenderSections(SortedKeys(DOMAIN by_cat), by_cat, checked_ids, cats_by_id)

\* the system rows of the checklist
RECURSIVE ChecklistRows(_, _, _)
ChecklistRows(cat_ids, by_cat, checked_ids) ==
    IF cat_ids = <<>> THEN <<>>
    ELSE Rows("tr", by_cat[Head(cat_ids)], checked_ids)
            \o ChecklistRows(Tail(cat_ids), by_cat, checked_ids)

\* html.replace(marker, block)
RECURSIVE Splice(_, _, _)
Splice(markup, name, block) ==
    IF markup = <<>> THEN <<>>
    ELSE (IF Head(markup) = Marker(name) THEN block ELSE <<Head(markup)>>)
            \o Splice(Tail(markup), name, block)

\* the systems_by_category of make_new_hire_forms: with generate_checked_only
\* the groups filtered on the checked ids, without the groups left empty
SystemsByCategory(by_cat, checked_ids, checked_only) ==
    IF checked_only
    THEN LET filtered == [c \in DOMAIN by_cat |->
                            SelectSeq(by_cat[c], LAMBDA s : s.id \in checked_ids)]
         IN  [c \in {x \in DOMAIN by_cat : filtered[x] # <<>>} |-> filtered[c]]
    ELSE by_cat

\* str.lower() and the order of the characters (their code points)
Lower(c) == CASE c = "A" -> "a" [] c = "B" -> "b" [] OTHER -> c
CodeOrder == <<" ", "\"", "&", ".", "/", "<", ">", "A", "B", "\\", "_", "a", "b", "n", "x">>
Code(c) == CHOOSE i \in DOMAIN CodeOrder : CodeOrder[i] = c

\* s < t for two strings
RECURSIVE StrLess(_, _)
StrLess(s, t) ==
    IF t = <<>> THEN FALSE
    ELSE IF s = <<>> THEN TRUE
    ELSE IF Head(s) = Head(t) THEN StrLess(Tail(s), Tail(t))
    ELSE Code(Head(s)) < Code(Head(t))

NameKey(s) == [i \in DOMAIN s.name |-> Lower(s.name[i])]

\* systems.sort(key=lambda s: s.get("name", "").lower()): a stable sort
RECURSIVE SortByName(_)
SortByName(list) ==
    IF list = <<>> THEN <<>>
    ELSE LET sorted == SortByName(SubSeq(list, 1, Len(list) - 1))
             s == list[Len(list)]
             k == Cardinality({i \in DOMAIN sorted : ~ StrLess(NameKey(s), NameKey(sorted[i]))})
         IN  SubSeq(sorted, 1, k) \o <<s>> \o SubSeq(sorted, k + 1, Len(sorted))

\* the groups of _render_departure_systems, in ascending category id
RECURSIVE DepartureGroups(_, _)
DepartureGroups(cat_ids, assigned) ==
    IF cat_ids = <<>> THEN <<>>
    ELSE LET cat_id == Head(cat_ids)
             stored == IF cat_id \in DOMAIN categories_by_id
                       THEN categories_by_id[cat_id].name ELSE <<>>
             cat_name == IF stored # <<>> THEN stored
                         ELSE IF cat_id = 0 THEN <<"Uncategorized">>
                         ELSE <<"Category ", ToString(cat_id)>>
             group == SortByName(SelectSeq(assigned, LAMBDA s : GetCatOr0(s) = cat_id))
         IN  <<Element("h4", FALSE, EscapeHtml(cat_name))>>
                \o [k \in DOMAIN group |-> Element("row", TRUE, EscapeHtml(group[k].name))]
                \o DepartureGroups(Tail(cat_ids), assigned)

\* _render_departure_systems(model, checked_ids)
RenderDepartureSystems(checked_ids) ==
    LET ids == SelectSeq(SortedKeys(checked_ids), LAMBDA i : i \in DOMAIN systems_by_id)
        assigned == [k \in DOMAIN ids |-> systems_by_id[ids[k]]]
    IN  IF assigned = <<>>
        THEN <<Element("p", FALSE, <<"No systems assigned for this position.">>)>>
        ELSE DepartureGroups(SortedKeys({GetCatOr0(assigned[k]) : k \in DOMAIN assigned}),
                             assigned)

(***************************************************************************)
(* FormGenerator: the output paths.  A path is its components, and whether *)
(* it is absolute.                                                         *)
(***************************************************************************)
OutDir == [abs |-> FALSE, parts |-> <<<<"generated-forms">>>>]

\* str.strip()
RECURSIVE Strip(_)
Strip(s) ==
    IF s = <<>> THEN s
    ELSE IF Head(s) = " " THEN Strip(Tail(s))
    ELSE IF s[Len(s)] = " " THEN Strip(SubSeq(s, 1, Len(s) - 1))
    ELSE s

\* s.split(sep)
RECURSIVE Split(_, _)
Split(s, sep) ==
    IF \A i \in DOMAIN s : s[i] # sep THEN <<s>>
    ELSE LET k == CHOOSE i \in DOMAIN s : s[i] = sep /\ \A j \in 1 .. i - 1 : s[j] # sep
         IN  <<SubSeq(s, 1, k - 1)>> \o Split(SubSeq(s, k + 1, Len(s)), sep)

\* Path(base) / s: the separators of s divide it into components, empty and "."
\* components are dropped, and an s that starts with the separator replaces base
PathJoin(base, s) ==
    LET parts == SelectSeq(Split(s, "/"), LAMBDA c : c # <<>> /\ c # <<".">>)
    IN  IF s # <<>> /\ Head(s) = "/"
        THEN [abs |-> TRUE, parts |-> parts]
        ELSE [abs |-> base.abs, parts |-> base.parts \o parts]

\* os.path.dirname(path)
Dirname(path) == [path EXCEPT !.parts = SubSeq(@, 1, Len(@) - 1)]

\* folder = Path(OUT_DIR) / employee_name.strip().replace(os.sep, "_")
Folder(employee_name) == PathJoin(OutDir, Replace(Strip(employee_name), "/", "_"))

\* folder / f"{employee_name} - <kind>.html"
OutFile(employee_name, kind) == PathJoin(Folder(employee_name), employee_name \o <<kind>>)

\* os.makedirs(folder) and the write_text calls: the directories asked for and
\* the files written
Written(employee_name, files) ==
    [dirs |-> {Folder(employee_name)} \cup {Dirname(files[k].path) : k \in DOMAIN files},
     files |-> files]

\* make_new_hire_forms(model, employee_name, dept_id, pos_id,
\*                     onq_user=, email=, date_value=, date_label=)
MakeNewHireForms(employee_name, dept_id, pos_id, onq_user, email, date_value, date_label) ==
    LET checked == SystemsForPosition(matrix, pos_id)
        by_category == SystemsByCategory(systems_by_cat, checked,
                                         data.settings.generate_checked_only)
        solicitud == FillBasicFields(TemplSolicitud, employee_name, PosName(pos_id),
                                     DeptName(dept_id), date_value, date_label, onq_user, email)
        checklist == FillBasicFields(TemplChecklist, employee_name, PosName(pos_id),
                                     DeptName(dept_id), date_value, date_label, None, None)
        solicitud_html == Splice(solicitud.html, "DYNAMIC_SYSTEM_SECTIONS_PLACEHOLDER",
                                 RenderSystemSections(by_category, checked, categories_by_id))
        checklist_html == Splice(checklist.html, "DYNAMIC_SYSTEM_ROWS_PLACEHOLDER",
                                 ChecklistRows(SortedKeys(DOMAIN by_category), by_category,
                                               checked))
    IN  /\ IF solicitud.raised \/ checklist.raised
           THEN /\ ret' = Ret("make_new_hire_forms", "raised", pos_id)
                /\ UNCHANGED written
           ELSE /\ written' = Written(employee_name,
                        <<[path |-> OutFile(employee_name, " - Solicitud de Acceso.html"),
                           content |-> solicitud_html],
                          [path |-> OutFile(employee_name, " - IT Checklist.html"),
                           content |-> checklist_html]>>)
                /\ ret' = Ret("make_new_hire_forms", "ok", pos_id)
        /\ UNCHANGED <<boot, uiVars, cat_ids_issued, data, catalogVars, accessVars, matrix,
                       disk_data, disk_matrix, html>>

\* make_departure_form(model, employee_name, dept_id, pos_id, onq_user=, email=, date_value=)
MakeDepartureForm(employee_name, dept_id, pos_id, onq_user, email, date_value) ==
    LET filled == FillAll(TemplDeparture,
                    <<<<"departure_employee", employee_name>>,
                      <<"departure_position", PosName(pos_id)>>,
                      <<"departure_department", DeptName(dept_id)>>,
                      <<"departure_onq", onq_user>>>>
                    \o (IF Truthy(date_value)
                        THEN <<<<"departure_term_date", date_value[1]>>,
                               <<"departure_remove_access", date_value[1]>>,
                               <<"departure_process_date", date_value[1]>>>>
                        ELSE <<>>)
                    \o <<<<"departure_today", Today>>>>)
        departure_html ==
            Splice(filled.html,
                   "Content for this section would be dynamically populated or added here",
                   RenderDepartureSystems(SystemsForPosition(matrix, pos_id)))
    IN  /\ IF filled.raised
           THEN /\ ret' = Ret("make_departure_form", "raised", pos_id)
                /\ UNCHANGED written
           ELSE /\ written' = Written(employee_name,
                        <<[path |-> OutFile(employee_name, " - Separation Checklist.html"),
                           content |-> departure_html]>>)
                /\ ret' = Ret("make_departure_form", "ok", pos_id)
        /\ UNCHANGED <<boot, uiVars, cat_ids_issued, data, catalogVars, accessVars, matrix,
                       disk_data, disk_matrix, html>>

(***************************************************************************)
(* save_json when the write fails.                                         *)
(*   with open(path, "w") as f: json.dump(data, f, ...)                    *)
(* open() raises and the file is as it was, or open() has emptied the file *)
(* and the dump stops with an OSError: the file holds a partial text, which *)
(* is no JSON document.  save_json has no except clause and no caller in   *)
(* Model has one: the exception leaves the operation.                      *)
(***************************************************************************)
PartialData   == [partial |-> TRUE]
PartialMatrix == <<[partial |-> TRUE]>>

\* the content of a file after a save_json that raised
FailedSave(old, partial) == {old, partial}

\* faulty variant: the exception of the write is caught and the call goes on
SaveJsonResult_Swallowed(write_fails) == "ok"

\* how a mutating operation ends once it reached save_json
SaveJsonResult(write_fails) == IF write_fails THEN "raised" ELSE "ok"

SetSystemForPositionWriteFails(pos_id, sys_id, enabled) ==
    /\ matrix' = SetSystemMatrix(matrix, pos_id, sys_id, enabled)
    /\ disk_matrix' \in FailedSave(disk_matrix, PartialMatrix)
    /\ ret' = Ret("set_system_for_position", SaveJsonResult(TRUE), sys_id)
    /\ UNCHANGED <<boot, uiVars, html, written, cat_ids_issued, data, catalogVars, accessVars, disk_data>>

AddCategoryWriteFails(name) ==
    LET new_id == NextId(categories)
        new_category == Cat(new_id, name)
    IN  /\ new_id <= MaxCatId
        /\ categories' = Append(categories, new_category)
        /\ categories_by_id' = DictPut(categories_by_id, new_id, new_category)
        /\ data' = [data EXCEPT !.categories = categories']
        /\ disk_data' \in FailedSave(disk_data, PartialData)
        /\ ret' = Ret("add_category", SaveJsonResult(TRUE), new_id)
        /\ cat_ids_issued' = [cat_ids_issued EXCEPT ![new_id] = IF @ = 0 THEN 1 ELSE 2]
        /\ UNCHANGED <<boot, uiVars, html, written, systems, systems_by_id, systems_by_cat, accessVars,
                       matrix, disk_matrix>>

AddSystemWriteFails(name, category_id) ==
    LET new_id == NextId(systems)
        new_system == Sys(new_id, name, category_id)
    IN  /\ new_id <= MaxSysId
        /\ systems' = Append(systems, new_system)
        /\ systems_by_id' = DictPut(systems_by_id, new_id, new_system)
        /\ systems_by_cat' = GroupAppend(systems_by_cat, category_id, new_system)
        /\ data' = [data EXCEPT !.systems = systems']
        /\ disk_data' \in FailedSave(disk_data, PartialData)
        /\ ret' = Ret("add_system", SaveJsonResult(TRUE), new_id)
        /\ UNCHANGED <<boot, uiVars, html, written, cat_ids_issued, categories, categories_by_id, accessVars,
                       matrix, disk_matrix>>

\* delete_system: the write of data.json fails (data_fails), or it is done and
\* the write of matrix.json fails
DeleteSystemWriteFails(sys_id, data_fails) ==
    LET category_id == GetCat(systems_by_id[sys_id])
        swept == Cascade(matrix, KeyList(matrix), sys_id)
    IN  /\ sys_id \in DOMAIN systems_by_id
        /\ ~swept.raised
        /\ systems_by_id' = DictDel(systems_by_id, sys_id)
        /\ systems' = SelectSeq(systems, LAMBDA s : s.id # sys_id)
        /\ systems_by_cat' = GroupRemove(systems_by_cat, category_id, sys_id)
        /\ matrix' = swept.m
        /\ data' = [data EXCEPT !.systems = systems']
        /\ IF data_fails
           THEN /\ disk_data' \in FailedSave(disk_data, PartialData)
                /\ disk_matrix' = disk_matrix
           ELSE /\ disk_data' = data'
                /\ disk_matrix' \in FailedSave(disk_matrix, PartialMatrix)
        /\ ret' = Ret("delete_system", SaveJsonResult(TRUE), sys_id)
        /\ UNCHANGED <<boot, uiVars, html, written, cat_ids_issued, categories, categories_by_id, accessVars>>

UpdateUserWriteFails(user_id, username, password, name, role, active) ==
    LET user == FindUser(user_id)[1]
        new == MergedUser(user, username, password, name, role, active)
        moved == IF IsSome(username)
                 THEN DictPut(DictDel(users_by_username, user.username), username[1], new)
                 ELSE users_by_username
    IN  /\ UpdateUserCheck(user_id, username, role) = "ok"
        /\ users' = [k \in DOMAIN users |-> IF users[k].id = user_id THEN new ELSE users[k]]
        /\ users_by_username' =
               [n \in DOMAIN moved |-> IF moved[n].id = user_id THEN new ELSE moved[n]]
        /\ data' = [data EXCEPT !.users = users']
        /\ disk_data' \in FailedSave(disk_data, PartialData)
        /\ ret' = Ret("update_user", SaveJsonResult(TRUE), user_id)
        /\ UNCHANGED <<boot, uiVars, html, written, cat_ids_issued, catalogVars, roles, roles_by_id,
                       matrix, disk_matrix>>

(***************************************************************************)
(* A crash of the process inside delete_system, and the next start of the  *)
(* program.                                                                *)
(***************************************************************************)
\* load_json(path, default): the document of the file; the default when the
\* text of the file is no JSON document (json.JSONDecodeError)
LoadJsonData(file)   == IF file = PartialData THEN EmptyData ELSE file
LoadJsonMatrix(file) == IF file = PartialMatrix THEN <<>> ELSE file

\* where the process stops: before the first save_json, inside it (the file
\* is open for writing and not yet complete), between the two calls, inside
\* the second one
CrashPoints == {"before_data", "in_data", "between", "in_matrix"}

\* the two files when delete_system(sys_id) stops at point
CrashedFiles(sys_id, point) ==
    LET new_data == [data EXCEPT !.systems = SelectSeq(systems, LAMBDA s : s.id # sys_id)]
        swept == Cascade(matrix, KeyList(matrix), sys_id)
    IN  CASE point = "before_data" -> [data |-> disk_data, matrix |-> disk_matrix]
          [] point = "in_data"     -> [data |-> PartialData, matrix |-> disk_matrix]
          [] point = "between"     -> [data |-> new_data, matrix |-> disk_matrix]
          [] point = "in_matrix"   -> [data |-> new_data, matrix |-> PartialMatrix]

\* delete_system(sys_id) of an existing system stops at point; the program is
\* started again and Model.__init__ loads the two files
DeleteSystemCrash(sys_id, point) ==
    /\ sys_id \in DOMAIN systems_by_id
    /\ ~Cascade(matrix, KeyList(matrix), sys_id).raised
    /\ disk_data' = CrashedFiles(sys_id, point).data
    /\ disk_matrix' = CrashedFiles(sys_id, point).matrix
    /\ boot' = IF disk_data' = PartialData THEN "none" ELSE boot
    /\ data' = LoadJsonData(disk_data')
    /\ matrix' = LoadJsonMatrix(disk_matrix')
    /\ systems' = data'.systems
    /\ systems_by_id' = IndexById(systems')
    /\ categories' = data'.categories
    /\ categories_by_id' = IndexById(categories')
    /\ roles' = data'.roles
    /\ roles_by_id' = IndexById(roles')
    /\ users' = data'.users
    /\ users_by_username' = IndexByUsername(users')
    /\ systems_by_cat' = GroupByCat(systems')
    /\ session' = NoSession
    /\ matrix_tab' = NoMatrixTab
    /\ ret' = Ret("restart", point, sys_id)
    /\ UNCHANGED <<cat_ids_issued, html, written>>

(***************************************************************************)
(* The window: login, the notebook and its tabs.                           *)
(* The user dict handed to the tabs is the object of the users list, so    *)
(* the session holds its id and reads its fields from the list.            *)
(***************************************************************************)
\* the resource that each tab is shown and enabled for
TabResource ==
    [matrix |-> "access_matrix", generate |-> "form_generation",
     catalog |-> "staff_management", config |-> "system_settings",
     users |-> "user_management", roles |-> "role_management"]
Tabs == DOMAIN TabResource
\* the tabs that compute self.read_only
EditTabs == Tabs \ {"generate"}

EditorGrid == [access_matrix |-> [view |-> TRUE, edit |-> TRUE],
               role_management |-> [view |-> TRUE, edit |-> TRUE]]

\* self.vars of a MatrixTab as _build_ui fills it: an IntVar(value=0) per
\* system of systems_by_cat
BuiltVars == [s \in UNION {{systems_by_cat[c][k].id : k \in DOMAIN systems_by_cat[c]} :
                                c \in DOMAIN systems_by_cat} |-> FALSE]

\* LoginWindow._submit, on_login and App._build_main_ui
Login(username, password) ==
    LET user == AuthenticateUser(users_by_username, username, password)
        shown == {tab \in Tabs : CheckPermission(user, TabResource[tab], "view")}
    IN  /\ session = NoSession
        /\ IF user = None
           THEN /\ ret' = RetK("login", "invalid", username)
                /\ UNCHANGED uiVars
           ELSE /\ session' =
                     [user_id |-> user[1].id,
                      tabs |-> shown,
                      editable |-> {tab \in shown \cap EditTabs :
                                        CheckPermission(user, TabResource[tab], "edit")}]
                /\ matrix_tab' = IF "matrix" \in shown
                                 THEN [vars |-> BuiltVars, current_pos |-> 0]
                                 ELSE NoMatrixTab
                /\ ret' = RetK("login", "ok", username)
        /\ UNCHANGED <<boot, html, written, cat_ids_issued, data, catalogVars, accessVars,
                       matrix, disk_data, disk_matrix>>

\* MatrixTab._on_select_position: every var is set from the matrix
SelectPosition(pos_id) ==
    /\ "matrix" \in session.tabs
    /\ matrix_tab' = [vars |-> [s \in DOMAIN matrix_tab.vars |->
                                    s \in SystemsForPosition(matrix, pos_id)],
                      current_pos |-> pos_id]
    /\ ret' = Ret("select_position", "ok", pos_id)
    /\ UNCHANGED <<boot, session, html, written, cat_ids_issued, data, catalogVars, accessVars,
                   matrix, disk_data, disk_matrix>>

\* for sid, var in self.vars.items():
\*     self.model.set_system_for_position(self._current_pos, sid, bool(var.get()))
RECURSIVE SaveAllToggles(_, _, _, _)
SaveAllToggles(m, pos_id, sids, tab_vars) ==
    IF sids = <<>> THEN m
    ELSE SaveAllToggles(SetSystemMatrix(m, pos_id, Head(sids), tab_vars[Head(sids)]),
                        pos_id, Tail(sids), tab_vars)

\* a click on the checkbox of system sid (enabled unless read_only): the var
\* flips and MatrixTab._on_toggle runs
ToggleCheckbox(sid) ==
    LET flipped == [matrix_tab.vars EXCEPT ![sid] = ~@]
    IN  /\ "matrix" \in session.editable
        /\ sid \in DOMAIN matrix_tab.vars
        /\ matrix_tab' = [matrix_tab EXCEPT !.vars = flipped]
        /\ IF matrix_tab.current_pos = 0
           THEN UNCHANGED <<matrix, disk_matrix>>
           ELSE /\ matrix' = SaveAllToggles(matrix, matrix_tab.current_pos,
                                            SortedKeys(DOMAIN flipped), flipped)
                /\ disk_matrix' = matrix'
        /\ ret' = Ret("on_toggle", "ok", sid)
        /\ UNCHANGED <<boot, session, html, written, cat_ids_issued, data, catalogVars,
                       accessVars, disk_data>>

\* dialog.result where the handler reads it.  RoleDialog.__init__ sets
\* self.result = None and _ok stores the entries; _add_role reads the result
\* after self.wait_window(dialog), _update_role right after the constructor.
RoleDialogResult(waited, entered) == IF waited THEN Some(entered) ELSE None

\* the entries the user confirms with OK; _ok refuses an empty id or name
RoleEntries(role_id, name, description, permissions) ==
    [role_id |-> role_id, name |-> name, description |-> description,
     permissions |-> permissions]

\* AccessControlTab._add_role, the dialog confirmed with OK
AddRoleDialog(role_id, name, description, permissions) ==
    LET result == RoleDialogResult(TRUE, RoleEntries(role_id, name, description, permissions))
    IN  /\ "roles" \in session.editable
        /\ role_id # "" /\ name # ""
        /\ IF result # None
           THEN AddRole(result[1].role_id, result[1].name, result[1].description,
                        result[1].permissions)
           ELSE /\ ret' = RetK("add_role_dialog", "no_call", role_id)
                /\ UNCHANGED <<boot, uiVars, html, written, cat_ids_issued, data, catalogVars,
                               accessVars, matrix, disk_data, disk_matrix>>

\* AccessControlTab._update_role for the selected role, the dialog confirmed
\* with OK
UpdateRoleDialog(role_id, name, description, permissions) ==
    LET result == RoleDialogResult(FALSE, RoleEntries(role_id, name, description, permissions))
    IN  /\ "roles" \in session.editable
        /\ role_id \in DOMAIN roles_by_id
        /\ name # ""
        /\ IF result # None
           THEN UpdateRole(role_id, Some(result[1].name), Some(result[1].description),
                           Some(result[1].permissions))
           ELSE /\ ret' = RetK("update_role_dialog", "no_call", role_id)
                /\ UNCHANGED <<boot, uiVars, html, written, cat_ids_issued, data, catalogVars,
                               accessVars, matrix, disk_data, disk_matrix>>

(***************************************************************************)
(* Next-state relations.                                                   *)
(*   Spec           the access matrix with add_system and delete_system    *)
(*   SpecCategories the category CRUD                                      *)
(*   SpecCatalog    categories and systems together                        *)
(*   SpecAccess     roles and users                                        *)
(***************************************************************************)
Next ==
    \/ \E p \in Positions, s \in SysArgs, en \in BOOLEAN : SetSystemForPosition(p, s, en)
    \/ AddSystem(<<"A">>, 0)
    \/ \E s \in SysArgs : DeleteSystem(s)

Spec == Init /\ [][Next]_vars

NextCategories ==
    \/ \E n \in Names : AddCategory(n)
    \/ \E c \in CatArgs, n \in Names : UpdateCategory(c, n)
    \/ \E c \in CatArgs : DeleteCategory(c)
    \/ \E en \in BOOLEAN : SetGenerateCheckedOnly(en)

SpecCategories == Init /\ [][NextCategories]_vars

NextCatalog ==
    \/ AddCategory(<<"A">>)
    \/ \E c \in CatArgs : DeleteCategory(c)
    \/ \E c \in CatArgs : AddSystem(<<"A">>, c)
    \/ \E s \in SysArgs, c \in CatArgs : UpdateSystem(s, <<"A">>, c)
    \/ \E s \in SysArgs : DeleteSystem(s)

SpecCatalog == Init /\ [][NextCatalog]_vars

\* SpecAccess explores the role management and the user management (usernames
\* and roles of users; one password, users left active).
NextAccess ==
    \/ \E r \in RoleIds, g \in Grids : AddRole(r, "R", "d", g)
    \/ \E r \in RoleIds, g \in Opt(Grids) : UpdateRole(r, Some("R"), None, g)
    \/ \E r \in RoleIds : DeleteRole(r)
    \/ \E un \in Usernames, r \in RoleArgs : AddUser(un, <<"pw">>, "N", r, TRUE)
    \/ \E u \in UserArgs, un \in Opt(Usernames), r \in Opt(RoleArgs) :
            UpdateUser(u, un, None, None, r, None)
    \/ \E u \in UserArgs : DeleteUser(u)

InitAccess == Init /\ boot # "strs"

SpecAccess == InitAccess /\ [][NextAccess]_vars

\* SpecIntegrity explores every operation that can refuse a call, on the
\* catalog of the files (names are left as they are).
NextIntegrity ==
    \/ \E c \in CatArgs : UpdateCategory(c, <<"A">>)
    \/ \E c \in CatArgs : DeleteCategory(c)
    \/ \E s \in SysArgs : UpdateSystem(s, <<"A">>, 1)
    \/ \E s \in SysArgs : DeleteSystem(s)
    \/ \E r \in RoleIds : AddRole(r, "R", "d", <<>>)
    \/ \E r \in RoleIds : UpdateRole(r, Some("R"), None, None)
    \/ \E r \in RoleIds : DeleteRole(r)
    \/ \E un \in Usernames \ {""}, r \in RoleIds : AddUser(un, <<"pw">>, "N", r, TRUE)
    \/ \E u \in UserArgs, un \in Opt(Usernames \ {""}), r \in Opt(RoleIds) :
            UpdateUser(u, un, None, None, r, None)
    \/ \E u \in UserArgs : DeleteUser(u)

SpecIntegrity == Init /\ [][NextIntegrity]_vars

\* SpecUsers explores the user management with passwords and the active flag,
\* under the roles of the files.
Passwords == {<<"pw">>, <<"new">>}

NextUsers ==
    \/ \E un \in {"", "ana"}, pw \in Passwords, a \in BOOLEAN : AddUser(un, pw, "N", "admin", a)
    \/ \E u \in UserArgs, un \in Opt({""}), pw \in Opt(Passwords), a \in Opt(BOOLEAN) :
            UpdateUser(u, un, pw, None, None, a)
    \/ \E u \in UserArgs : DeleteUser(u)

SpecUsers == InitAccess /\ [][NextUsers]_vars

\* SpecFill explores the filling of the input fields of a template.
NextFill ==
    \/ \E template \in FieldTemplates : ReadText(template)
    \/ \E input_id \in FieldIds, value \in Texts : FillField(input_id, value)

InitFill == Init /\ boot = "none"

SpecFill == InitFill /\ [][NextFill]_vars

\* SpecForms explores the generation of the forms for position 1 on the
\* catalog of the files: system 2 (which has no categoryId) renamed and put
\* in category 0, category 1 renamed, the grants of position 1, and the
\* generate_checked_only setting.
FormName == <<"<", "&">>
EmployeeNames == {<<"a", "/", "b">>, <<"<">>}

NextForms ==
    \/ UpdateCategory(1, FormName)
    \/ UpdateSystem(2, FormName, 0)
    \/ \E s \in SysArgs, en \in BOOLEAN : SetSystemForPosition(1, s, en)
    \/ \E en \in BOOLEAN : SetGenerateCheckedOnly(en)
    \/ \E e \in EmployeeNames :
            MakeNewHireForms(e, 1, 1, Some(<<"u", "\"">>), Some(<<"&">>), None, None)
    \/ \E e \in EmployeeNames :
            MakeDepartureForm(e, 1, 1, <<"u", "\"">>, <<"&">>, Some(<<"d">>))

InitForms == Init /\ boot = "ints"

SpecForms == InitForms /\ [][NextForms]_vars

\* SpecDeparture explores the departure form over catalogs whose systems move
\* between categories, existing or not, and are deleted.
NextDeparture ==
    \/ \E s \in SysArgs, c \in {0, MaxCatId} : UpdateSystem(s, <<"A">>, c)
    \/ \E s \in SysArgs : DeleteSystem(s)
    \/ \E s \in SysArgs : SetSystemForPosition(1, s, TRUE)
    \/ \E p \in Positions : MakeDepartureForm(<<"x">>, 1, p, <<"u">>, <<"n">>, None)

InitDeparture == Init /\ boot # "none"

SpecDeparture == InitDeparture /\ [][NextDeparture]_vars

\* SpecOrder explores the request and the checklist over catalogs whose
\* systems are added, moved between categories and deleted; system i is
\* named SystemNames[i].
SystemNames == <<<<"A">>, <<"B">>>>

NextOrder ==
    \/ \E c \in {0, 1} : AddSystem(SystemNames[NextId(systems)], c)
    \/ \E s \in SysArgs, c \in {0, 1} : UpdateSystem(s, SystemNames[s], c)
    \/ \E s \in SysArgs : DeleteSystem(s)
    \/ \E en \in BOOLEAN : SetGenerateCheckedOnly(en)
    \/ MakeNewHireForms(<<"x">>, 1, 1, None, None, None, None)

InitOrder == Init /\ boot = "strs"

SpecOrder == InitOrder /\ [][NextOrder]_vars

\* SpecCrash explores delete_system with crashes, over the matrix file that
\* stores its ids as strings (the cascade completes), and the forms generated
\* after the restart.
NextCrash ==
    \/ \E s \in SysArgs, point \in CrashPoints : DeleteSystemCrash(s, point)
    \/ \E s \in SysArgs : DeleteSystem(s)
    \/ \E en \in BOOLEAN : SetGenerateCheckedOnly(en)
    \/ \E p \in Positions : MakeNewHireForms(<<"x">>, 1, p, None, None, None, None)
    \/ \E p \in Positions : MakeDepartureForm(<<"x">>, 1, p, <<"u">>, <<"n">>, None)

InitCrash == Init /\ boot = "strs"

SpecCrash == InitCrash /\ [][NextCrash]_vars

\* SpecMatrixTab explores the matrix tab of a user who may edit the matrix,
\* with systems added and deleted (in the catalog tab) after the tab was built.
NextMatrixTab ==
    \/ UpdateRole("admin", None, None, Some(EditorGrid))
    \/ Login("ana", <<"pw">>)
    \/ \E p \in Positions : SelectPosition(p)
    \/ \E s \in SysArgs : ToggleCheckbox(s)
    \/ AddSystem(<<"A">>, 0)
    \/ \E s \in SysArgs : DeleteSystem(s)

InitMatrixTab == Init /\ boot # "none"

SpecMatrixTab == InitMatrixTab /\ [][NextMatrixTab]_vars

\* SpecSession explores a session: the login, and the roles and the role of
\* the user changed before and after it.
NextSession ==
    \/ \E pw \in Passwords : Login("ana", pw)
    \/ \E g \in Grids \cup {EditorGrid} : UpdateRole("admin", None, None, Some(g))
    \/ \E g \in Grids \cup {EditorGrid} : AddRole("viewer", "R", "d", g)
    \/ \E r \in RoleIds : UpdateUser(1, None, None, None, Some(r), None)
    \/ \E r \in RoleIds : DeleteRole(r)

InitSession == Init /\ boot = "ints"

SpecSession == InitSession /\ [][NextSession]_vars

\* SpecRoleDialogs explores the Add Role and Update Role dialogs of a user who
\* may edit the roles.
DialogNames == {"R", "S"}
DialogGrids == Grids \cup {EditorGrid}

NextRoleDialogs ==
    \/ UpdateRole("admin", None, None, Some(EditorGrid))
    \/ Login("ana", <<"pw">>)
    \/ \E r \in RoleIds, n \in DialogNames, g \in DialogGrids :
            AddRoleDialog(r, n, "d", g)
    \/ \E r \in RoleIds, n \in DialogNames, g \in DialogGrids :
            UpdateRoleDialog(r, n, "e", g)
    \/ \E r \in RoleIds : DeleteRole(r)

InitRoleDialogs == Init /\ boot # "none"

SpecRoleDialogs == InitRoleDialogs /\ [][NextRoleDialogs]_vars

\* SpecFaults explores the mutating operations with writes that fail: each
\* save_json of an operation succeeds or raises.
WriteFails ==
    \/ \E en \in BOOLEAN : SetSystemForPositionWriteFails(1, 1, en)
    \/ AddCategoryWriteFails(<<"A">>)
    \/ AddSystemWriteFails(<<"A">>, 0)
    \/ \E s \in SysArgs, data_fails \in BOOLEAN : DeleteSystemWriteFails(s, data_fails)
    \/ UpdateUserWriteFails(1, None, Some(<<"new">>), None, None, None)

NextFaults ==
    \/ WriteFails
    \/ \E en \in BOOLEAN : SetSystemForPosition(1, 1, en)
    \/ AddSystem(<<"A">>, 0)
    \/ \E s \in SysArgs : DeleteSystem(s)

\* the matrix file that stores its ids as strings: the cascade of delete_system completes
InitFaults == Init /\ boot = "strs"

SpecFaults == InitFaults /\ [][NextFaults]_vars

(***************************************************************************)
(* Properties.                                                             *)
(***************************************************************************)
\* the system ids (as integers) of the matrix entry m[i]
EntryInts(m, i) == {ToInt(e) : e \in Range(m[i].ids)}

\* C1: for a system id of the catalog, delete_system returns success and
\* afterwards no position's matrix entry contains that id.
C1_DeleteSystemCascades ==
    (ret.op = "delete_system" /\ ret.res # "not_found") =>
        /\ ret.res = "ok"
        /\ \A i \in DOMAIN matrix : ret.id \notin EntryInts(matrix, i)

\* C2: every system id stored in a position's matrix entry is the id of a
\* system of the catalog.
C2_MatrixIdsExist ==
    \A i \in DOMAIN matrix : EntryInts(matrix, i) \subseteq {systems[k].id : k \in DOMAIN systems}

StrictlyIncreasingInts(ids) ==
    /\ \A k \in DOMAIN ids : ids[k].t = "int"
    /\ \A j, k \in DOMAIN ids : j < k => ids[j].v < ids[k].v

\* C3: started from an empty matrix, every matrix entry is a strictly
\* increasing list of integers without duplicates, and matrix.json holds the
\* same lists.
C3_EntriesNormalized ==
    boot = "none" =>
        /\ \A i \in DOMAIN matrix : StrictlyIncreasingInts(matrix[i].ids)
        /\ disk_matrix = matrix

C3_Witness ==
    /\ boot = "none"
    /\ ret.op = "delete_system"
    /\ \E i \in DOMAIN matrix : Len(matrix[i].ids) = 2
    /\ \E i \in DOMAIN disk_matrix : Len(disk_matrix[i].ids) = 2

\* the entry of a position: whether its key is present, and its list
EntryOf(m, pos_id) == <<PosKey(pos_id) \in MatrixKeys(m), MatrixGet(m, PosKey(pos_id))>>

\* C4: set_system_for_position(p, s, True) followed by
\* set_system_for_position(p, s, False) leaves the entry of p (presence of
\* the key and its list) as it was before the two calls.
C4_RoundTrip ==
    \A p \in Positions, s \in SysArgs :
        EntryOf(SetSystemMatrix(SetSystemMatrix(matrix, p, s, TRUE), p, s, FALSE), p)
            = EntryOf(matrix, p)

\* C5: no position key of the matrix, in memory or in matrix.json, maps to
\* an empty list.
C5_NoEmptyEntry ==
    /\ \A i \in DOMAIN matrix : matrix[i].ids # <<>>
    /\ \A i \in DOMAIN disk_matrix : disk_matrix[i].ids # <<>>

\* C6: delete_category of an existing category is rejected exactly when a
\* system has that categoryId; rejected, it leaves categories and systems
\* unchanged; accepted, it removes the category from the list and the index.
C6_DeleteCategoryGuard ==
    [][(ret'.op = "delete_category" /\ ret'.id \in DOMAIN categories_by_id) =>
        LET c == ret'.id
            used == \E k \in DOMAIN systems : systems[k].categoryId = c
        IN  /\ (ret'.res # "ok") <=> used
            /\ used => UNCHANGED <<catalogVars, data, disk_data>>
            /\ ~used => /\ c \notin DOMAIN categories_by_id'
                        /\ \A k \in DOMAIN categories' : categories'[k].id # c
                        /\ Len(categories') = Len(categories) - 1
                        /\ UNCHANGED <<systems, systems_by_id, systems_by_cat>>]_vars

C6_Witness ==
    /\ ret.op = "delete_category"
    /\ ret.res = "in_use"
    /\ \E k \in DOMAIN systems : systems[k].categoryId = ret.id
    /\ ret.id \in DOMAIN categories_by_id

\* C7: delete_role of an existing role is rejected exactly when a user of the
\* catalog has that role; once delete_user or update_user has left a role
\* without users, delete_role of it succeeds.
C7_DeleteRoleGuard ==
    [][/\ (ret'.op = "delete_role" /\ ret'.key \in DOMAIN roles_by_id) =>
            LET r == ret'.key
                held == \E k \in DOMAIN users : users[k].role = r
            IN  /\ (ret'.res # "ok") <=> held
                /\ held => UNCHANGED <<accessVars, data, disk_data>>
                /\ ~held => /\ r \notin DOMAIN roles_by_id'
                            /\ \A k \in DOMAIN roles' : roles'[k].id # r
                            /\ Len(roles') = Len(roles) - 1
       /\ (ret'.op \in {"delete_user", "update_user"} /\ ret'.res = "ok") =>
            \A r \in DOMAIN roles_by_id' :
                (~ \E k \in DOMAIN users' : users'[k].role = r) => DeleteRoleResult(r)' = "ok"
      ]_vars

C7_Witness ==
    /\ ret.op = "delete_user"
    /\ ret.res = "ok"
    /\ users = <<>>
    /\ roles # <<>>
    /\ \A r \in DOMAIN roles_by_id : DeleteRoleResult(r) = "ok"

\* permissions[resource][action] is present and true
Granted(permissions, resource, action) ==
    /\ resource \in DOMAIN permissions
    /\ action \in DOMAIN permissions[resource]
    /\ permissions[resource][action] = TRUE

\* the users check_permission is asked about: no user, each user of the
\* catalog, and a user record for each role id (a role that exists or not)
ProbeUsers ==
    {None} \cup {Some(users[k]) : k \in DOMAIN users}
           \cup {Some(User(0, "x", <<>>, "X", r, TRUE)) : r \in RoleArgs}

\* C8: check_permission allows exactly when the user is present, its role id
\* is the id of a role of the catalog and permissions[resource][action] of
\* that role is true; in every other case it denies.
C8_FailClosed ==
    \A u \in ProbeUsers, res \in Resources \cup {"reports"}, act \in Actions \cup {"export"} :
        CheckPermission(u, res, act) =
            (/\ u # None
             /\ \E k \in DOMAIN roles :
                    roles[k].id = u[1].role /\ Granted(roles[k].permissions, res, act))

C8_Witness ==
    /\ \E k \in DOMAIN users :
            /\ CheckPermission(Some(users[k]), "access_matrix", "view")
            /\ ~ CheckPermission(Some(users[k]), "access_matrix", "edit")
            /\ "delete" \notin DOMAIN roles_by_id[users[k].role].permissions["access_matrix"]
    /\ \E k \in DOMAIN users : users[k].role \notin DOMAIN roles_by_id

\* C9: add_category never assigns an id that an earlier category held: no
\* category id is assigned twice.
C9_NeverReuses == \A i \in DOMAIN cat_ids_issued : cat_ids_issued[i] <= 1

\* C9 (amended): add_category assigns an id greater than the id of every
\* category in the catalog at the call, the next after the greatest (1 when
\* there is none); the id of a deleted category can be assigned again.
C9_NextAfterMax ==
    [][ret'.op = "add_category" =>
        LET ids == {categories[k].id : k \in DOMAIN categories}
        IN  /\ \A i \in ids : i < ret'.id
            /\ ret'.id = 1 \/ ret'.id - 1 \in ids
            /\ categories' = Append(categories, categories'[Len(categories')])
            /\ categories'[Len(categories')].id = ret'.id]_vars

C9_Witness ==
    /\ ret.op = "add_category"
    /\ cat_ids_issued[ret.id] = 2

\* the catalog as the Model object holds it
MemoryCatalog ==
    [systems |-> systems, categories |-> categories, roles |-> roles, users |-> users,
     settings |-> data.settings]

\* C10: when a mutating operation returns success, data.json equals the
\* in-memory catalog and matrix.json equals the in-memory matrix.
C10_SuccessMeansPersisted ==
    ret.res = "ok" => (disk_data = MemoryCatalog /\ disk_matrix = matrix)

\* what a refused call answers: (False, reason), or False
Refusals == {"exists", "not_found", "in_use", "username_exists", "invalid_role", "fail"}

\* C11: when an operation reports a validation or referential-integrity
\* failure, the catalog lists, every index, the matrix and both files are
\* what they were before the call.
C11_RefusalChangesNothing ==
    [][ret'.res \in Refusals =>
        UNCHANGED <<data, catalogVars, accessVars, matrix, disk_data, disk_matrix>>]_vars

C11_Witness ==
    /\ ret.op = "update_user"
    /\ ret.res = "username_exists"
    /\ Len(users) = 2
    /\ Len(systems) = 1

\* C12: add_user and update_user refuse a username held by another user and
\* a role that is no existing role, so the usernames of the users are pairwise
\* distinct and the role of every user is the id of an existing role.
C12_UsersWellFormed ==
    /\ \A i, j \in DOMAIN users : users[i].username = users[j].username => i = j
    /\ \A i \in DOMAIN users : users[i].role \in DOMAIN roles_by_id

\* C13: after add_user, and after update_user with a password, the password
\* field of that user is the SHA-256 digest of the supplied password and not
\* the password itself; a record of the file that stores a plaintext password
\* authenticates with it until update_user replaces it by a digest.
C13_PasswordsHashed ==
    [][/\ \A un \in Usernames, pw \in Passwords, a \in BOOLEAN :
            (AddUser(un, pw, "N", "admin", a) /\ ret'.res = "ok") =>
                LET user == users'[Len(users')]
                IN  /\ user.id = ret'.id
                    /\ user.password = Sha256(pw)
                    /\ user.password # pw
                    /\ users_by_username'[un].password = Sha256(pw)
       /\ \A u \in UserArgs, un \in Opt({""}), pw \in Passwords, a \in Opt(BOOLEAN) :
            (UpdateUser(u, un, Some(pw), None, None, a) /\ ret'.res = "ok") =>
                \A k \in DOMAIN users' :
                    users'[k].id = u => users'[k].password = Sha256(pw) /\ users'[k].password # pw
       /\ \A k \in DOMAIN users :
            (/\ users[k].password \in Passwords
             /\ users[k].active
             /\ users[k].username \in DOMAIN users_by_username
             /\ users_by_username[users[k].username] = users[k]) =>
                AuthenticateUser(users_by_username, users[k].username, users[k].password)
                    = Some(users[k])]_vars

\* a record of the file with a plaintext password was given a new password
C13_Witness ==
    /\ boot = "ints"
    /\ ret.op = "update_user" /\ ret.res = "ok" /\ ret.id = 1
    /\ \E k \in DOMAIN users : users[k].id = 1 /\ users[k].password = Sha256(<<"new">>)
    /\ Len(users) = 2

\* the passwords tried at the login: those of the calls and a stored digest
ProbePasswords == Passwords \cup {Sha256(pw) : pw \in Passwords}

\* authenticate_user answers a record only when it is an active user of the
\* list with that username whose stored password is the digest of the password
\* or the password itself
AuthenticatesOnlyValid ==
    \A un \in Usernames, pw \in ProbePasswords :
        LET found == AuthenticateUser(users_by_username, un, pw)
        IN  found # None =>
                /\ \E k \in DOMAIN users : users[k] = found[1]
                /\ found[1].username = un
                /\ found[1].active
                /\ (found[1].password = Sha256(pw) \/ found[1].password = pw)

\* C14: authenticate_user returns the user record only if a user with that
\* username exists, is active, and its stored password is the digest of the
\* password or the password itself; once update_user has set a user inactive,
\* or delete_user has removed it, no call for the username of that user
\* returns a record.
C14_AuthenticateGuard ==
    /\ []AuthenticatesOnlyValid
    /\ [][/\ (ret'.op = "update_user" /\ ret'.res = "ok") =>
                \A k \in DOMAIN users' :
                    (users'[k].id = ret'.id /\ ~ users'[k].active) =>
                        \A pw \in ProbePasswords :
                            AuthenticateUser(users_by_username', users'[k].username, pw) = None
          /\ (ret'.op = "delete_user" /\ ret'.res = "ok") =>
                \A k \in DOMAIN users :
                    users[k].id = ret'.id =>
                        \A pw \in ProbePasswords :
                            AuthenticateUser(users_by_username', users[k].username, pw) = None]_vars

\* the group of category c holds each system of the list whose category
\* (0 when it has none) is c once, as the record of the list, and nothing else
GroupMatches(c) ==
    LET members == {k \in DOMAIN systems : GetCatOr0(systems[k]) = c}
        group == IF c \in DOMAIN systems_by_cat THEN systems_by_cat[c] ELSE <<>>
    IN  /\ Len(group) = Cardinality(members)
        /\ Range(group) = {systems[k] : k \in members}

\* C15: after every operation each index holds exactly the entities of its
\* list under their current key: systems_by_id and systems_by_cat the systems
\* (a system without categoryId under 0), categories_by_id the categories,
\* roles_by_id the roles, users_by_username the users.
C15_IndexesMatchLists ==
    /\ systems_by_id = IndexById(systems)
    /\ \A c \in DOMAIN systems_by_cat \cup {GetCatOr0(systems[k]) : k \in DOMAIN systems} :
            GroupMatches(c)
    /\ categories_by_id = IndexById(categories)
    /\ roles_by_id = IndexById(roles)
    /\ users_by_username = IndexByUsername(users)

\* C16: the categoryId of every system is 0 or the id of a category of the
\* catalog (a system of the file without categoryId counts as 0).
C16_CategoryIdsExist ==
    \A k \in DOMAIN systems :
        GetCatOr0(systems[k]) = 0 \/ GetCatOr0(systems[k]) \in DOMAIN categories_by_id

\* the value attributes of the first <input> with this id
ValueAttrs(markup, input_id) ==
    LET k == CHOOSE x \in Addressed(markup, input_id) :
                    \A y \in Addressed(markup, input_id) : x <= y
    IN  SelectSeq(markup[k].attrs, LAMBDA a : a.name = "value")

\* C19: filling a field twice with a value gives the markup that filling it
\* once gives, with exactly one value attribute on the addressed input; a
\* further filling with another value overwrites the value and adds no
\* attribute.
C19_FillIdempotent ==
    \A input_id \in FieldIds, value \in Texts :
        LET once == SetInputValue(html, input_id, value)
            twice == SetInputValue(once.html, input_id, value)
        IN  (~ once.raised /\ Addressed(html, input_id) # {}) =>
                /\ ~ twice.raised
                /\ twice.html = once.html
                /\ Len(ValueAttrs(once.html, input_id)) = 1
                /\ \A other \in Texts :
                        LET again == SetInputValue(once.html, input_id, other)
                        IN  /\ ~ again.raised
                            /\ Len(ValueAttrs(again.html, input_id)) = 1
                            /\ ValueAttrs(again.html, input_id)[1].val = EscapeHtml(other)

\* the checkbox rows (tag) of a document, and how many of them show this text
\* with this mark
RowsOf(doc, tag) == SelectSeq(doc, LAMBDA e : e.tag = tag)
CountRows(doc, tag, text, checked) ==
    Cardinality({k \in DOMAIN doc :
                    doc[k].tag = tag /\ doc[k].text = text /\ doc[k].checked = checked})

\* a document lists exactly the systems of the set listed (positions in the
\* systems list), each once, checked exactly when assigned
ListsExactly(doc, tag, listed, assigned) ==
    /\ Len(RowsOf(doc, tag)) = Cardinality(listed)
    /\ \A k \in listed :
            LET text == EscapeHtml(systems[k].name)
                mark == systems[k].id \in assigned
            IN  CountRows(doc, tag, text, mark)
                    = Cardinality({j \in listed :
                            /\ EscapeHtml(systems[j].name) = text
                            /\ (systems[j].id \in assigned) = mark})

\* C17: the request and the checklist list every system of the catalog once,
\* checked exactly when it is assigned to the position, when
\* generate_checked_only is off; when it is on they list exactly the assigned
\* systems, all checked, and no category without a row.
C17_FormsListSystems ==
    (ret.op = "make_new_hire_forms" /\ ret.res = "ok") =>
        LET assigned == SystemsForPosition(matrix, ret.id)
            listed == IF data.settings.generate_checked_only
                      THEN {k \in DOMAIN systems : systems[k].id \in assigned}
                      ELSE DOMAIN systems
            solicitud == written.files[1].content
            checklist == written.files[2].content
        IN  /\ ListsExactly(solicitud, "row", listed, assigned)
            /\ ListsExactly(checklist, "tr", listed, assigned)
            /\ \A k \in DOMAIN solicitud :
                    solicitud[k].tag = "h4" =>
                        k < Len(solicitud) /\ solicitud[k + 1].tag = "row"

\* the characters of the texts and attribute values of a document
DocChars(doc) ==
    UNION {Range(doc[k].text) : k \in DOMAIN doc}
        \cup UNION {UNION {Range(doc[k].attrs[i].val) : i \in DOMAIN doc[k].attrs} :
                        k \in DOMAIN doc}

\* C18: every text inserted into a generated document (employee, position and
\* department names, login id, email, system and category names) is escaped:
\* no document holds one of & < > " as it was typed.
C18_TextsEscaped ==
    \A f \in DOMAIN written.files :
        DocChars(written.files[f].content) \cap {"&", "<", ">", "\""} = {}

\* the document was filled in for this employee name
FilledFor(doc, employee_name) ==
    \E k \in DOMAIN doc, field \in {"nombre", "departure_employee"} :
        /\ doc[k].tag = "input"
        /\ doc[k].attrs = <<Attr("id", <<field>>), Attr("value", EscapeHtml(employee_name))>>

\* C20: each generated document is written directly inside the folder
\* <output root>/<employee name with separators replaced>: no separator of
\* the name is a directory boundary of the path.
C20_WrittenInsideFolder ==
    \A f \in DOMAIN written.files :
        \E e \in EmployeeNames :
            /\ FilledFor(written.files[f].content, e)
            /\ Dirname(written.files[f].path)
                    = [abs |-> FALSE, parts |-> OutDir.parts \o <<Replace(Strip(e), "/", "_")>>]

\* C21: when the write of a store fails during a mutating operation, the
\* operation does not report success: the failure reaches the caller.
C21_WriteFailureSurfaces == [][WriteFails => ret'.res # "ok"]_vars

C21_Witness == ret.res = "raised" /\ disk_data = PartialData /\ data # PartialData

\* C30: when the write fails during a mutating operation, the in-memory
\* catalog, indexes and matrix are left as they were before the operation.
C30_FailedWriteLeavesMemory ==
    [][WriteFails => UNCHANGED <<catalogVars, accessVars, matrix>>]_vars

\* the systems assigned to a position that exist in the catalog
AssignedInCatalog(pos_id) ==
    SelectSeq(systems, LAMBDA s : s.id \in SystemsForPosition(matrix, pos_id))

\* C22: in the departure document every group whose category id is 0 or
\* matches no existing category is labeled "Uncategorized"; when the position
\* has no assigned system that exists in the catalog, a single placeholder
\* paragraph is emitted and no group.
C22_DepartureLabels ==
    (ret.op = "make_departure_form" /\ ret.res = "ok") =>
        LET doc == written.files[1].content
            assigned == AssignedInCatalog(ret.id)
            cat_ids == SortedKeys({GetCatOr0(assigned[k]) : k \in DOMAIN assigned})
            headings == RowsOf(doc, "h4")
        IN  IF assigned = <<>>
            THEN Len(RowsOf(doc, "p")) = 1 /\ headings = <<>> /\ RowsOf(doc, "row") = <<>>
            ELSE /\ RowsOf(doc, "p") = <<>>
                 /\ Len(headings) = Len(cat_ids)
                 /\ \A k \in DOMAIN cat_ids :
                        (cat_ids[k] = 0 \/ cat_ids[k] \notin {categories[j].id : j \in DOMAIN categories})
                            => headings[k].text = <<"Uncategorized">>

\* the headings and rows of a document, in their order
Listing(doc) == SelectSeq(doc, LAMBDA e : e.tag \in {"h4", "row", "tr"})

\* the request and the checklist listings of a catalog as Model.__init__ groups it
ListingsOf(list, checked_ids, checked_only) ==
    LET by_category == SystemsByCategory(GroupByCat(list), checked_ids, checked_only)
    IN  <<RenderSystemSections(by_category, checked_ids, categories_by_id),
          ChecklistRows(SortedKeys(DOMAIN by_category), by_category, checked_ids)>>

\* C23: the request and the checklist render the categories in ascending id
\* and, within a category, the systems in the order of the systems list; the
\* rendering is the one produced after reloading the persisted catalog.
C23_CatalogOrder ==
    (ret.op = "make_new_hire_forms" /\ ret.res = "ok") =>
        LET assigned == SystemsForPosition(matrix, ret.id)
            only == data.settings.generate_checked_only
            shown == <<Listing(written.files[1].content), Listing(written.files[2].content)>>
        IN  /\ shown = ListingsOf(systems, assigned, only)
            /\ shown = ListingsOf(disk_data.systems, assigned, only)

\* the persisted pairs that a delete_system(sys_id) stopped by a crash may leave
AllowedPairs(sys_id) ==
    LET old_data == LoadJsonData(disk_data)
        old_matrix == LoadJsonMatrix(disk_matrix)
        new_data == [old_data EXCEPT !.systems = SelectSeq(@, LAMBDA s : s.id # sys_id)]
        new_matrix == Cascade(old_matrix, KeyList(old_matrix), sys_id).m
    IN  {<<disk_data, disk_matrix>>, <<new_data, disk_matrix>>, <<new_data, new_matrix>>}

CrashLeavesAllowedPair ==
    \A s \in SysArgs, point \in CrashPoints :
        DeleteSystemCrash(s, point) => <<disk_data', disk_matrix'>> \in AllowedPairs(s)

\* an id of the matrix that is the id of no system of the catalog
Dangling(pos_id) == SystemsForPosition(matrix, pos_id) \ {systems[k].id : k \in DOMAIN systems}

\* the rows of a document that are checked
CheckedRows(doc) == SelectSeq(doc, LAMBDA e : e.tag \in {"row", "tr"} /\ e.checked)

\* lookups leave the dangling ids out; the forms are generated and mark the
\* assigned systems of the catalog, no other
DanglingIsAbsent ==
    /\ \A p \in Positions : Dangling(p) = {}
    /\ ret.op \in {"make_new_hire_forms", "make_departure_form"} =>
            /\ ret.res = "ok"
            /\ \A f \in DOMAIN written.files :
                    Len(CheckedRows(written.files[f].content)) = Len(AssignedInCatalog(ret.id))

\* C24: delete_system writes the catalog before the matrix, so a crash at any
\* point leaves (old catalog, old matrix), (new catalog, old matrix) or (new
\* catalog, new matrix); after the restart, matrix lookups and form
\* generation treat a dangling id as absent and do not fail.
C24_CrashConsistent == [][CrashLeavesAllowedPair]_vars /\ []DanglingIsAbsent

\* C25: for a user whose stored password is the SHA-256 digest of a password
\* p, authenticate_user succeeds only with p: any other string, the stored
\* digest itself included, is rejected.
C25_OnlyThePassword ==
    \A un \in DOMAIN users_by_username, p \in Passwords, supplied \in ProbePasswords :
        (/\ users_by_username[un].password = Sha256(p)
         /\ AuthenticateUser(users_by_username, un, supplied) # None)
            => supplied = p

\* C26: a system created by add_system starts with no grants: right after
\* add_system returned the id n, no position's systems_for_position holds n.
C26_NewSystemUngranted ==
    (ret.op = "add_system" /\ ret.res = "ok") =>
        \A p \in Positions : ret.id \notin SystemsForPosition(matrix, p)

\* C27: a toggle of one checkbox of the matrix tab changes the membership of
\* that system for the selected position only: every other system of that
\* position and the entry of every other position are as before, also after
\* systems were added to or deleted from the catalog.
C27_ToggleChangesOne ==
    [][\A sid \in SysArgs :
          ToggleCheckbox(sid) =>
              /\ \A p \in Positions \ {matrix_tab.current_pos} :
                      EntryOf(matrix', p) = EntryOf(matrix, p)
              /\ \A s \in SysArgs \ {sid}, p \in Positions :
                      (s \in SystemsForPosition(matrix', p))
                          <=> (s \in SystemsForPosition(matrix, p))]_vars

\* C28: at every point of a session a tab is shown only if the current user
\* may view its resource and its editing controls are enabled only if the
\* current user may edit it, in the current state of the roles and users.
C28_TabsFollowPermissions ==
    session.user_id # 0 =>
        \A tab \in Tabs :
            /\ tab \in session.tabs =>
                    CheckPermission(FindUser(session.user_id), TabResource[tab], "view")
            /\ tab \in session.editable =>
                    CheckPermission(FindUser(session.user_id), TabResource[tab], "edit")

\* the Add Role dialog confirmed with OK: add_role is called with the entries
AddDialogCalls ==
    \A r \in RoleIds, n \in DialogNames, g \in DialogGrids :
        AddRoleDialog(r, n, "d", g) =>
            /\ ret'.op = "add_role" /\ ret'.key = r
            /\ ret'.res = "ok" => roles_by_id'[r] = Role(r, n, "d", g)

\* the Update Role dialog confirmed with OK: update_role is called for the
\* selected role with the entries
UpdateDialogCalls ==
    \A r \in RoleIds, n \in DialogNames, g \in DialogGrids :
        UpdateRoleDialog(r, n, "e", g) =>
            /\ ret'.op = "update_role" /\ ret'.key = r
            /\ roles_by_id'[r] = Role(r, n, "e", g)

\* C29: when the Update Role dialog of the selected role is confirmed with
\* OK, update_role is called for that role with the name, description and
\* permissions entered, as add_role is after the Add Role dialog.
C29_DialogUpdatesRole == [][AddDialogCalls /\ UpdateDialogCalls]_vars

====
